---- MODULE Spec2Model ----
(***************************************************************************)
(* Model of the Game View processing workers:                              *)
(*   packages/processing/modal_worker.py     process_production   (static) *)
(*   packages/processing/modal_worker_4d.py  process_production_4d (motion)*)
(* One job is followed from its start to the return of the job function.   *)
(* External engines, the object storage and the HTTP transports are the    *)
(* environment: each of their outcomes is a nondeterministic choice.       *)
(***************************************************************************)
EXTENDS Integers, Sequences, FiniteSets, TLC

\* ------------------------------------------------------------------ bounds
MaxVideos == 2      \* most source videos of a request
MaxRaw == 2         \* most frames ffmpeg extracts from one video
MaxCap == 2         \* largest maxFrames setting of a request
MaxExport == 2      \* most per-timestamp files the temporal export writes
MaxLines == 1       \* most output lines read from a training engine

\* ------------------------------------------------------------------ values
None == [kind |-> "None"]
Str(t) == [kind |-> "str", text |-> t]

\* Python truthiness of a value that is None or a string.
Truthy(v) == v.kind = "str" /\ v.text # <<>>

CallbackUrls == {None, Str(<<>>), Str(<<"https://studio/api/processing/callback">>)}

\* Exit statuses of a child process: 0, and 1 standing for every nonzero one.
ExitCodes == {0, 1}

\* Exceptions, and str(e) as Python computes it.
CalledProcessError(cmd, code) == [type |-> "CalledProcessError", args |-> <<cmd, ToString(code)>>]
PyException(msg) == [type |-> "Exception", args |-> <<msg>>]
OSError(what, path) == [type |-> "OSError", args |-> <<what, path>>]
URLError == [type |-> "URLError", args |-> <<"<urlopen error>">>]
AttributeError == [type |-> "AttributeError", args |-> <<"'NoneType' object has no attribute 'replace'">>]
ConnectionError == [type |-> "ConnectionError", args |-> <<"connection failed">>]
KeyError(k) == [type |-> "KeyError", args |-> <<k>>]
StorageError(key) == [type |-> "StorageException", args |-> <<"upload failed", key>>]

StrOf(e) ==
  IF e.type = "CalledProcessError"
  THEN <<"Command", e.args[1], "returned non-zero exit status", e.args[2]>>
  ELSE e.args

\* ------------------------------------------------------------------ stages
\* The "# Stage N" sections of the job functions, under the pipeline's names.
StageOrder ==
  <<"Downloading", "FrameExtraction", "Reconstruction", "Training", "Export",
    "Uploading", "Complete">>

MarkLast(st, s) ==
  IF st = <<>> THEN st ELSE [st EXCEPT ![Len(st)].status = s]

\* Control reaches the first statement of a stage: the one before it is over.
EnterStage(st, name) ==
  Append(MarkLast(st, "succeeded"), [name |-> name, status |-> "running"])

\* An exception leaves the try body from within the current stage.
FailStage(st) == MarkLast(st, "failed")

VARIABLES
  request,        \* the job's arguments: mode, callback_url, source_videos, settings
  pc,             \* position of the job function
  work_dir,       \* TRUE while the scratch directory exists on disk
  result,         \* the result dict
  exc,            \* the exception in flight, or None
  stages,         \* stages entered so far, each with its status
  invocations,    \* external programs started, in order
  running,        \* child processes started and not yet waited for
  storage,        \* keys written to the bucket, in order
  progress,       \* send_progress calls, in order
  callbacks,      \* bodies POSTed to callback_url, in order
  frames,         \* frames kept per camera (lists of <<camera, index>>)
  all_frames,     \* the frames handed to the reconstruction engines
  glomap_success, \* the flag of the same name
  sparse_dir,     \* TRUE when sparse_dir holds a valid model subdirectory
  files,          \* output files present in output_dir
  outputs,        \* the URLs collected while uploading
  exported_frames,\* per-timestamp files copied to output_dir/frames
  lines,          \* training output lines read so far
  extracted,      \* frames ffmpeg wrote per camera, before any sampling
  transport,      \* "up" or "down": whether POSTs to the platform get through
  last_line,      \* the training loop's variable line; None outside the loop
  calls,          \* function calls spawned by the trigger endpoints, in order
  acks,           \* bodies returned by the trigger endpoints, in order
  disk,           \* work directories present on the workers' file system
  uploads,        \* what a motion job has put in the bucket: key and body
  listing         \* where one copied frame file stands in output_frames, or None

vars ==
  <<request, pc, work_dir, result, exc, stages, invocations, running, storage,
    progress, callbacks, frames, all_frames, glomap_success, sparse_dir, files,
    outputs, exported_frames, lines, extracted, transport, last_line, calls,
    acks, disk, uploads, listing>>

Static == request.mode = "static"
Motion == request.mode = "motion"

\* send_progress: one POST attempt; a transport failure is swallowed inside it.
SendProgress(log, stage, pct) == Append(log, [stage |-> stage, progress |-> pct])

\* Faulty variant of ProgressRaises: a failed POST escapes send_progress.
ProgressRaisesOnFailure(url, t) ==
  IF url = None THEN AttributeError
  ELSE IF t = "down" THEN ConnectionError
  ELSE None

\* What send_progress raises into the job, or None.  callback_url.replace is
\* evaluated before the try, so a None url raises; the POST sits in
\* try/except Exception and its status code is only printed, so neither a
\* network error nor a non-2xx answer raises anything.
ProgressRaises(url, t) == IF url = None THEN AttributeError ELSE None

Requests ==
  [mode : {"static", "motion"},
   callback_url : CallbackUrls,
   source_videos : 1..MaxVideos,
   max_frames : 1..MaxCap,
   production_id : {"prod-a"},
   experience_id : {"exp-a"}]

\* The state in which the job function is entered, for a request of reqs.
InitWith(reqs) ==
  /\ request \in reqs
  /\ pc = "start"
  /\ work_dir = FALSE
  /\ result = None
  /\ exc = None
  /\ stages = <<>>
  /\ invocations = <<>>
  /\ running = {}
  /\ storage = <<>>
  /\ progress = <<>>
  /\ callbacks = <<>>
  /\ frames = <<>>
  /\ all_frames = <<>>
  /\ glomap_success = FALSE
  /\ sparse_dir = FALSE
  /\ files = {}
  /\ outputs = None
  /\ exported_frames = 0
  /\ lines = 0
  /\ extracted = <<>>
  /\ transport \in {"up", "down"}
  /\ last_line = None
  /\ calls = <<>>
  /\ acks = <<>>
  /\ disk = {}
  /\ uploads = <<>>
  /\ listing = None

Init == InitWith(Requests)

\* Faulty variant of InitialResult: the two identifiers change places.
InitialResultSwapsIds ==
  [success |-> FALSE, production_id |-> request.experience_id,
   experience_id |-> request.production_id, outputs |-> None, error |-> None]

\* The initial result dict.
InitialResult ==
  IF Motion
  THEN [success |-> FALSE, production_id |-> request.production_id,
        experience_id |-> request.experience_id, outputs |-> None, error |-> None,
        motion_enabled |-> TRUE]
  ELSE [success |-> FALSE, production_id |-> request.production_id,
        experience_id |-> request.experience_id, outputs |-> None, error |-> None]

\* Faulty variant of Raise: the failure is logged and the job carries on with training.
RaiseSwallowed(e) ==
  /\ exc' = e
  /\ pc' = "training"
  /\ stages' = FailStage(stages)

\* An exception raised inside the try body: control goes to the handler.
Raise(e) ==
  /\ exc' = e
  /\ pc' = "except"
  /\ stages' = FailStage(stages)

\* Client creation, before the try: a missing variable or a failing
\* create_client leaves the function by an exception.
SetupClient ==
  /\ pc = "start"
  /\ \E ok \in BOOLEAN :
       IF ok
       THEN pc' = "mkdtemp" /\ exc' = exc
       ELSE pc' = "raised" /\ exc' = KeyError("SUPABASE_URL")
  /\ UNCHANGED <<request, calls, acks, disk, last_line, transport, extracted, work_dir,
                 result, stages, invocations, running, storage, progress, callbacks,
                 frames, all_frames, glomap_success, sparse_dir, files, outputs, lines,
                 exported_frames, uploads, listing>>

\* mkdtemp, the subdirectories and the initial result, still before the try.
SetupWorkDir ==
  /\ pc = "mkdtemp"
  /\ \E outcome \in {"ok", "mkdtemp_fails", "mkdir_fails"} :
       /\ work_dir' = (outcome # "mkdtemp_fails")
       /\ IF outcome = "ok"
          THEN /\ result' = InitialResult
               /\ pc' = "download"
               /\ exc' = exc
          ELSE /\ result' = result
               /\ pc' = "raised"
               /\ exc' = OSError("No space left on device", "work_dir")
  /\ UNCHANGED <<request, calls, acks, disk, last_line, transport, extracted, stages,
                 invocations, running, storage, progress, callbacks, frames, all_frames,
                 glomap_success, sparse_dir, files, outputs, lines, exported_frames,
                 uploads, listing>>

\* Stage 1: the first progress report, then urlretrieve for each video.
Download ==
  /\ pc = "download"
  /\ IF ProgressRaises(request.callback_url, transport) # None
     THEN \* the first send_progress call raises: no later one is reached
          /\ exc' = ProgressRaises(request.callback_url, transport)
          /\ pc' = "except"
          /\ stages' = FailStage(EnterStage(stages, "Downloading"))
          /\ UNCHANGED progress
     ELSE /\ progress' = SendProgress(progress, "downloading", 5)
          /\ \E ok \in BOOLEAN :
               IF ok
               THEN /\ pc' = "extract"
                    /\ exc' = exc
                    /\ stages' = EnterStage(stages, "Downloading")
               ELSE /\ exc' = URLError
                    /\ pc' = "except"
                    /\ stages' = FailStage(EnterStage(stages, "Downloading"))
  /\ UNCHANGED <<request, calls, acks, disk, last_line, transport, extracted, work_dir,
                 result, invocations, running, storage, callbacks, frames, all_frames,
                 glomap_success, sparse_dir, files, outputs, lines, exported_frames,
                 uploads, listing>>

\* ------------------------------------------------------------ frame sampling
\* The frames ffmpeg wrote for one camera, in sorted (glob) order.
CamFrames(cam, n) == [j \in 1..n |-> <<cam, j>>]

RECURSIVE Flatten(_)
Flatten(ss) == IF ss = <<>> THEN <<>> ELSE Head(ss) \o Flatten(Tail(ss))

RECURSIVE GCD(_, _)
GCD(a, b) == IF b = 0 THEN a ELSE GCD(b, a % b)

\* step = n / m is a double, and so is i * step.  Where i * n / m is no integer
\* the product is far from one and int() is the exact floor; where it is an
\* integer k the product is k or just below k.  FloatBelow lists the cases
\* "just below" as <<n / g, m / g, i>> with g = gcd(n, m), for every
\* 0 <= i < m < n <= 64 (step depends on the ratio only).
FloatBelow ==
  {<<15, 11, 11>>, <<15, 11, 22>>, <<15, 13, 13>>, <<15, 13, 26>>, <<15, 13, 39>>,
   <<26, 23, 23>>, <<29, 25, 25>>, <<30, 11, 11>>, <<30, 13, 13>>, <<31, 29, 29>>}

\* int(i * step) with step = n / m, for the i-th pick (i from 0), n <= 64.
SampledIndex(i, n, m) ==
  LET g == GCD(n, m)
      k == (i * n) \div m
  IN IF (i * n) % m = 0 /\ <<n \div g, m \div g, i>> \in FloatBelow
     THEN k - 1
     ELSE k

\* Faulty variant of SampleAll: the list is resampled whatever its length.
SampleAllAlways(fs, m) ==
  IF fs = <<>>
  THEN fs
  ELSE [i \in 1..m |-> fs[SampledIndex(i - 1, Len(fs), m) + 1]]

\* Static job: uniform sampling of the merged list when it exceeds the cap.
SampleAll(fs, m) ==
  IF Len(fs) > m
  THEN [i \in 1..m |-> fs[SampledIndex(i - 1, Len(fs), m) + 1]]
  ELSE fs

\* ------------------------------------------------------------ static job
\* Stage 2: ffmpeg per video (check=True), merge, sample, copy for COLMAP.
\* failAt = 0: every ffmpeg run exits 0; otherwise the failAt-th one fails.
\* raw bounds the number of frames ffmpeg writes for one video.
ExtractFramesUpTo(raw) ==
  /\ pc = "extract"
  /\ Static
  /\ progress' = SendProgress(progress, "frame_extraction", 15)
  /\ \E failAt \in 0..request.source_videos :
       IF failAt = 0
       THEN \E counts \in [1..request.source_videos -> 0..raw] :
              /\ invocations' = invocations \o [i \in 1..request.source_videos |-> "ffmpeg"]
              /\ extracted' = [i \in 1..request.source_videos |-> CamFrames(i - 1, counts[i])]
              /\ frames' = extracted'
              /\ all_frames' = SampleAll(Flatten(frames'), request.max_frames)
              /\ pc' = "features"
              /\ exc' = exc
              /\ stages' = EnterStage(stages, "FrameExtraction")
       ELSE /\ invocations' = invocations \o [i \in 1..failAt |-> "ffmpeg"]
            /\ exc' = CalledProcessError("ffmpeg", 1)
            /\ pc' = "except"
            /\ stages' = FailStage(EnterStage(stages, "FrameExtraction"))
            /\ UNCHANGED <<extracted, frames, all_frames>>
  /\ UNCHANGED <<request, calls, acks, disk, last_line, transport, work_dir, result,
                 running, storage, callbacks, glomap_success, sparse_dir, files,
                 outputs, lines, exported_frames, uploads, listing>>

ExtractFrames == ExtractFramesUpTo(MaxRaw)

\* Stage 3, first engine: colmap feature_extractor, check=True, re-raised.
FeatureExtractor ==
  /\ pc = "features"
  /\ Static
  /\ progress' = SendProgress(progress, "colmap_features", 25)
  /\ invocations' = Append(invocations, "colmap feature_extractor")
  /\ \E code \in ExitCodes :
       IF code = 0
       THEN /\ pc' = "matching"
            /\ exc' = exc
            /\ stages' = EnterStage(stages, "Reconstruction")
       ELSE /\ exc' = CalledProcessError("colmap feature_extractor", code)
            /\ pc' = "except"
            /\ stages' = FailStage(EnterStage(stages, "Reconstruction"))
  /\ UNCHANGED <<request, calls, acks, disk, last_line, transport, extracted, work_dir,
                 result, running, storage, callbacks, frames, all_frames,
                 glomap_success, sparse_dir, files, outputs, lines, exported_frames,
                 uploads, listing>>

\* colmap sequential_matcher, check=True, re-raised.
SequentialMatcher ==
  /\ pc = "matching"
  /\ Static
  /\ progress' = SendProgress(progress, "colmap_matching", 35)
  /\ invocations' = Append(invocations, "colmap sequential_matcher")
  /\ \E code \in ExitCodes :
       IF code = 0
       THEN pc' = "glomap" /\ UNCHANGED <<exc, stages>>
       ELSE Raise(CalledProcessError("colmap sequential_matcher", code))
  /\ UNCHANGED <<request, calls, acks, disk, last_line, transport, extracted, work_dir,
                 result, running, storage, callbacks, frames, all_frames,
                 glomap_success, sparse_dir, files, outputs, lines, exported_frames,
                 uploads, listing>>

\* A mapper can only leave a valid model when it was given images.
ModelAfter(before) == IF all_frames = <<>> THEN {before} ELSE {before, TRUE}

\* Faulty variant of NoValidModel: an exit status of 0 is taken for a model.
NoValidModelTrustsExit(dir) == FALSE

\* The search over sorted(sparse_dir.iterdir()) leaves model_dir (model_subdir
\* in the motion job) None: no subdirectory holds a cameras.bin.
NoValidModel(dir) == ~dir

\* What each job raises when the search finds nothing.
NoModelStatic ==
  PyException("COLMAP reconstruction failed - no valid model produced. Try with different camera angles or more overlap between videos.")
NoModelMotion == PyException("COLMAP reconstruction failed - no valid model")

\* The primary engine: progress, chmod of the binary, Popen.  chmod and Popen
\* raise OSError, which the except CalledProcessError around Popen lets through.
GlomapLaunch ==
  /\ pc = "glomap"
  /\ Static
  /\ progress' = SendProgress(progress, "glomap", 50)
  /\ glomap_success' = FALSE
  /\ \E outcome \in {"started", "chmod_fails", "popen_fails"} :
       IF outcome = "started"
       THEN /\ invocations' = Append(invocations, "glomap mapper")
            /\ running' = running \cup {"glomap mapper"}
            /\ pc' = "glomap_wait"
            /\ UNCHANGED <<exc, stages>>
       ELSE /\ Raise(OSError(outcome, "glomap"))
            /\ UNCHANGED <<invocations, running>>
  /\ UNCHANGED <<request, calls, acks, disk, last_line, transport, extracted, work_dir,
                 result, storage, callbacks, frames, all_frames, sparse_dir, files,
                 outputs, lines, exported_frames, uploads, listing>>

\* The output is read to its end and process.wait() gives the exit status; a
\* nonzero one is raised as CalledProcessError and caught on the spot.
GlomapWait ==
  /\ pc = "glomap_wait"
  /\ running' = running \ {"glomap mapper"}
  /\ \E code \in ExitCodes :
       /\ glomap_success' = (code = 0)
       /\ sparse_dir' \in ModelAfter(sparse_dir)
  /\ pc' = "fallback"
  /\ UNCHANGED <<request, calls, acks, disk, last_line, transport, extracted, work_dir,
                 result, exc, stages, invocations, storage, progress, callbacks, frames,
                 all_frames, files, outputs, lines, exported_frames, uploads, listing>>

\* Faulty variant of NeedFallback: the secondary engine runs whatever the primary did.
NeedFallbackAlways(success) == TRUE

\* Faulty variant of NeedFallback: a primary that left no model is replaced too.
NeedFallbackOnMissingModel(success) == ~success \/ ~sparse_dir

\* if not glomap_success
NeedFallback(success) == ~success

\* Faulty variant of MapperFailure: the primary's exception is what gets raised.
MapperFailurePrimary(outcome) == CalledProcessError("glomap mapper", 1)

\* Faulty variant of FallbackAttempt: the primary is tried once more before falling back.
FallbackAttemptAfterRetry(log) == log \o <<"glomap mapper", "colmap mapper">>

\* subprocess.run(["colmap", "mapper", ...]): the one secondary attempt.
FallbackAttempt(log) == Append(log, "colmap mapper")

\* Faulty variant of MapperFailure: a timeout is reported like a nonzero exit.
MapperFailureUniform(outcome) == CalledProcessError("colmap mapper", 1)

\* The exception the job fails with when the secondary engine fails too.
MapperFailure(outcome) ==
  IF outcome = "timeout"
  THEN PyException("Reconstruction timed out after 3 hours - try reducing video count or duration")
  ELSE CalledProcessError("colmap mapper", 1)

\* The secondary engine: colmap mapper on the same database, image and output
\* paths, with check=True and a timeout.
ColmapMapper ==
  /\ pc = "fallback"
  /\ IF NeedFallback(glomap_success)
     THEN /\ progress' = SendProgress(progress, "glomap", 55)
          /\ invocations' = FallbackAttempt(invocations)
          /\ \E outcome \in {"ok", "nonzero", "timeout"} :
               IF outcome = "ok"
               THEN /\ sparse_dir' \in ModelAfter(sparse_dir)
                    /\ pc' = "training"
                    /\ UNCHANGED <<exc, stages>>
               ELSE /\ Raise(MapperFailure(outcome))
                    /\ UNCHANGED sparse_dir
     ELSE /\ pc' = "training"
          /\ UNCHANGED <<progress, invocations, sparse_dir, exc, stages>>
  /\ UNCHANGED <<request, calls, acks, disk, last_line, transport, extracted, work_dir,
                 result, running, storage, callbacks, frames, all_frames,
                 glomap_success, files, outputs, lines, exported_frames, uploads,
                 listing>>

\* ------------------------------------------------------------ training output
\* A line of training output: whether it holds the word Iteration, and its
\* first token with a slash: none, one that does not parse, or cur/tot.
MaxIter == 1
FractionsUpTo(n) == [kind : {"frac"}, cur : 0..n, tot : 0..n]
Fractions == FractionsUpTo(MaxIter)
LinesUpTo(n) ==
  [iteration : BOOLEAN, token : {None, [kind |-> "bad"]} \cup FractionsUpTo(n)]
Lines == LinesUpTo(MaxIter)

\* A line yields a progress report when it names an iteration and its token
\* parses to integers with a nonzero total; anything else falls in "except: pass".
Reports(line) ==
  /\ line.iteration
  /\ line.token.kind = "frac"
  /\ line.token.tot # 0

\* Reduced cur/tot for which the floating-point product pct * 0.15 (static) or
\* pct * 0.3 (motion) lands just below the integer it equals in exact arithmetic.
RoundsBelow(width) ==
  IF width = 15
  THEN {<<1, 3>>, <<7, 15>>, <<2, 3>>, <<11, 15>>, <<14, 15>>, <<19, 15>>, <<4, 3>>,
        <<22, 15>>, <<28, 15>>, <<38, 15>>, <<8, 3>>, <<41, 15>>, <<44, 15>>,
        <<47, 15>>, <<53, 15>>, <<11, 3>>, <<56, 15>>, <<59, 15>>}
  ELSE {<<1, 6>>, <<7, 30>>, <<1, 3>>, <<11, 30>>, <<7, 15>>, <<19, 30>>, <<2, 3>>,
        <<11, 15>>, <<14, 15>>, <<19, 15>>, <<4, 3>>, <<41, 30>>, <<22, 15>>,
        <<47, 30>>, <<53, 30>>, <<11, 6>>, <<28, 15>>, <<59, 30>>, <<61, 30>>,
        <<23, 10>>, <<73, 30>>, <<38, 15>>, <<79, 30>>, <<8, 3>>, <<41, 15>>,
        <<44, 15>>, <<91, 30>>, <<47, 15>>, <<19, 6>>, <<97, 30>>, <<103, 30>>,
        <<53, 15>>, <<109, 30>>, <<11, 3>>, <<56, 15>>, <<59, 15>>}

\* int(int(cur) / int(tot) * 100 * w) for w = width / 100, cur <= 4 * tot.
ScaledPct(cur, tot, width) ==
  LET q == (width * cur) \div tot
      below == \E k \in 1..tot : \E r \in RoundsBelow(width) :
                 cur = k * r[1] /\ tot = k * r[2]
  IN IF (width * cur) % tot = 0 /\ below THEN q - 1 ELSE q

\* Faulty variant of Forwarded: a line that does not parse reports the floor.
ForwardedOrFloor(log, line, stage, floor, width) ==
  IF Reports(line)
  THEN SendProgress(log, stage, floor + ScaledPct(line.token.cur, line.token.tot, width))
  ELSE SendProgress(log, stage, floor)

\* The reports after one line of output: floor + int(pct * width / 100) is
\* sent for a line that parses; for any other the bare except passes.
Forwarded(log, line, stage, floor, width) ==
  IF Reports(line)
  THEN SendProgress(log, stage, floor + ScaledPct(line.token.cur, line.token.tot, width))
  ELSE log

\* ------------------------------------------------------- static job, stage 4 on
\* Stage 4 opens with its progress report and the search for a valid model;
\* then the OpenSplat input is prepared and the trainer started.
TrainingStart ==
  /\ pc = "training"
  /\ Static
  /\ progress' = SendProgress(progress, "training", 70)
  /\ IF NoValidModel(sparse_dir)
     THEN /\ exc' = NoModelStatic
          /\ pc' = "except"
          /\ stages' = FailStage(EnterStage(stages, "Training"))
          /\ UNCHANGED <<invocations, running>>
     ELSE \E started \in BOOLEAN :
            IF started
            THEN /\ invocations' = Append(invocations, "opensplat")
                 /\ running' = running \cup {"opensplat"}
                 /\ pc' = "training_stream"
                 /\ exc' = exc
                 /\ stages' = EnterStage(stages, "Training")
            ELSE /\ exc' = OSError("popen_fails", "opensplat")
                 /\ pc' = "except"
                 /\ stages' = FailStage(EnterStage(stages, "Training"))
                 /\ UNCHANGED <<invocations, running>>
  /\ UNCHANGED <<request, calls, acks, disk, last_line, transport, extracted, work_dir,
                 result, storage, callbacks, frames, all_frames, glomap_success,
                 sparse_dir, files, outputs, lines, exported_frames, uploads, listing>>

\* One line of OpenSplat output: 70 + int(pct * 0.15) is reported when it parses.
\* At most maxLines lines are read, with numbers up to maxIter.
TrainingLineOf(maxLines, maxIter) ==
  /\ pc = "training_stream"
  /\ Static
  /\ lines < maxLines
  /\ lines' = lines + 1
  /\ \E line \in LinesUpTo(maxIter) :
       /\ last_line' = line
       /\ progress' = Forwarded(progress, line, "training", 70, 15)
  /\ UNCHANGED <<request, calls, acks, disk, transport, extracted, pc, work_dir, result,
                 exc, stages, invocations, running, storage, callbacks, frames,
                 all_frames, glomap_success, sparse_dir, files, outputs,
                 exported_frames, uploads, listing>>

TrainingLine == TrainingLineOf(MaxLines, MaxIter)

\* End of output: process.wait(); a nonzero status becomes an Exception.
TrainingExit ==
  /\ pc = "training_stream"
  /\ Static
  /\ last_line' = None
  /\ running' = running \ {"opensplat"}
  /\ \E code \in ExitCodes :
       IF code = 0
       THEN /\ \E written \in BOOLEAN :
                 files' = IF written THEN files \cup {"splat.ply"} ELSE files
            /\ pc' = "export"
            /\ UNCHANGED <<exc, stages>>
       ELSE /\ Raise(PyException("Gaussian Splatting training failed - error code " \o ToString(code)))
            /\ UNCHANGED files
  /\ UNCHANGED <<request, calls, acks, disk, transport, extracted, work_dir, result,
                 invocations, storage, progress, callbacks, frames, all_frames,
                 glomap_success, sparse_dir, outputs, lines, exported_frames, uploads,
                 listing>>

\* Rename to scene.ply, colmap model_converter (check=True), cameras.json, and
\* the thumbnail from the first frame when there is one.
ExportScene ==
  /\ pc = "export"
  /\ Static
  /\ IF "splat.ply" \notin files
     THEN /\ exc' = PyException("OpenSplat did not produce output file")
          /\ pc' = "except"
          /\ stages' = FailStage(EnterStage(stages, "Export"))
          /\ UNCHANGED <<invocations, files>>
     ELSE /\ invocations' = Append(invocations, "colmap model_converter")
          /\ \E code \in ExitCodes :
               IF code = 0
               THEN /\ files' = ((files \ {"splat.ply"}) \cup {"scene.ply", "cameras.json"})
                                  \cup (IF all_frames # <<>> THEN {"thumbnail.jpg"} ELSE {})
                    /\ pc' = "upload_ply"
                    /\ exc' = exc
                    /\ stages' = EnterStage(stages, "Export")
               ELSE /\ files' = (files \ {"splat.ply"}) \cup {"scene.ply"}
                    /\ exc' = CalledProcessError("colmap model_converter", code)
                    /\ pc' = "except"
                    /\ stages' = FailStage(EnterStage(stages, "Export"))
  /\ UNCHANGED <<request, calls, acks, disk, last_line, transport, extracted, work_dir,
                 result, running, storage, progress, callbacks, frames, all_frames,
                 glomap_success, sparse_dir, outputs, lines, exported_frames, uploads,
                 listing>>

\* ------------------------------------------------------------ uploads
Url(key) == Str(<<"public-url", key>>)

\* outputs[field] = url, as a dict update.
Put(map, field, value) == (field :> value) @@ map

\* Stage 5 opens with its progress report and an empty outputs dict; scene.ply
\* is uploaded when the file exists.
UploadPly ==
  /\ pc = "upload_ply"
  /\ Static
  /\ progress' = SendProgress(progress, "uploading", 90)
  /\ IF "scene.ply" \in files
     THEN \E ok \in BOOLEAN :
            IF ok
            THEN /\ storage' = Append(storage, "scene.ply")
                 /\ outputs' = Put(<<>>, "plyUrl", Url("scene.ply"))
                 /\ pc' = "upload_cameras"
                 /\ exc' = exc
                 /\ stages' = EnterStage(stages, "Uploading")
            ELSE /\ exc' = StorageError("scene.ply")
                 /\ pc' = "except"
                 /\ stages' = FailStage(EnterStage(stages, "Uploading"))
                 /\ outputs' = <<>>
                 /\ UNCHANGED storage
     ELSE /\ outputs' = <<>>
          /\ pc' = "upload_cameras"
          /\ exc' = exc
          /\ stages' = EnterStage(stages, "Uploading")
          /\ UNCHANGED storage
  /\ UNCHANGED <<request, calls, acks, disk, last_line, transport, extracted, work_dir,
                 result, invocations, running, callbacks, frames, all_frames,
                 glomap_success, sparse_dir, files, lines, exported_frames, uploads,
                 listing>>

\* One "if path.exists(): upload; outputs[field] = public url" block.
UploadIfExists(file, field, next) ==
  IF file \in files
  THEN \E ok \in BOOLEAN :
         IF ok
         THEN /\ storage' = Append(storage, file)
              /\ outputs' = Put(outputs, field, Url(file))
              /\ pc' = next
              /\ UNCHANGED <<exc, stages>>
         ELSE /\ Raise(StorageError(file))
              /\ UNCHANGED <<storage, outputs>>
  ELSE /\ pc' = next
       /\ UNCHANGED <<storage, outputs, exc, stages>>

UploadCameras ==
  /\ pc = "upload_cameras"
  /\ Static
  /\ UploadIfExists("cameras.json", "camerasUrl", "upload_thumbnail")
  /\ UNCHANGED <<request, calls, acks, disk, last_line, transport, extracted, work_dir,
                 result, invocations, running, progress, callbacks, frames, all_frames,
                 glomap_success, sparse_dir, files, lines, exported_frames, uploads,
                 listing>>

UploadThumbnail ==
  /\ pc = "upload_thumbnail"
  /\ Static
  /\ UploadIfExists("thumbnail.jpg", "thumbnailUrl", "finish")
  /\ UNCHANGED <<request, calls, acks, disk, last_line, transport, extracted, work_dir,
                 result, invocations, running, progress, callbacks, frames, all_frames,
                 glomap_success, sparse_dir, files, lines, exported_frames, uploads,
                 listing>>

\* result["success"] = True; result["outputs"] = outputs
Finish ==
  /\ pc = "finish"
  /\ Static
  /\ result' = [result EXCEPT !.success = TRUE,
                              !.outputs = [kind |-> "map", map |-> outputs]]
  /\ stages' = MarkLast(EnterStage(stages, "Complete"), "succeeded")
  /\ pc' = "finally"
  /\ UNCHANGED <<request, calls, acks, disk, last_line, transport, extracted, work_dir,
                 exc, invocations, running, storage, progress, callbacks, frames,
                 all_frames, glomap_success, sparse_dir, files, outputs, lines,
                 exported_frames, uploads, listing>>

\* ------------------------------------------------------------ the way out
\* Faulty variant of Handled: the handler only logs.
HandledLogOnly(res, e) == res

\* Faulty variant of Handled: the URLs collected so far are reported too.
HandledWithPartialOutputs(res, e) ==
  [res EXCEPT !.error = Str(StrOf(e)), !.outputs = outputs]

\* What the handler stores: result["error"] = str(e).
Handled(res, e) == [res EXCEPT !.error = Str(StrOf(e))]

\* Faulty variant of Except: the handler starts the pipeline over.
ExceptRetries ==
  /\ pc = "except"
  /\ pc' = "download"
  /\ exc' = None
  /\ UNCHANGED <<request, calls, acks, disk, last_line, transport, extracted, work_dir,
                 result, stages, invocations, running, storage, progress, callbacks,
                 frames, all_frames, glomap_success, sparse_dir, files, outputs,
                 exported_frames, lines, uploads, listing>>

\* Faulty variant of Except: the handler deletes what the job has stored.
ExceptRollsBack ==
  /\ pc = "except"
  /\ result' = Handled(result, exc)
  /\ storage' = <<>>
  /\ pc' = "finally"
  /\ UNCHANGED <<request, calls, acks, disk, last_line, transport, extracted, work_dir,
                 exc, stages, invocations, running, progress, callbacks, frames,
                 all_frames, glomap_success, sparse_dir, files, outputs, lines,
                 exported_frames, uploads, listing>>

\* except Exception as e
Except ==
  /\ pc = "except"
  /\ result' = Handled(result, exc)
  /\ pc' = "finally"
  /\ UNCHANGED <<request, calls, acks, disk, last_line, transport, extracted, work_dir,
                 exc, stages, invocations, running, storage, progress, callbacks,
                 frames, all_frames, glomap_success, sparse_dir, files, outputs, lines,
                 exported_frames, uploads, listing>>

\* Faulty variant of Cleanup: rmtree at the end of the try body, not in a finally.
CleanupOnSuccessOnly ==
  /\ pc = "finally"
  /\ work_dir' = (exc # None)
  /\ files' = {}
  /\ pc' = "callback"
  /\ UNCHANGED <<request, calls, acks, disk, last_line, transport, extracted, result,
                 exc, stages, invocations, running, storage, progress, callbacks,
                 frames, all_frames, glomap_success, sparse_dir, outputs,
                 exported_frames, lines, uploads, listing>>

\* finally: shutil.rmtree(work_dir, ignore_errors=True)
Cleanup ==
  /\ pc = "finally"
  /\ work_dir' = FALSE
  /\ files' = {}
  /\ pc' = "callback"
  /\ UNCHANGED <<request, calls, acks, disk, last_line, transport, extracted, result,
                 exc, stages, invocations, running, storage, progress, callbacks,
                 frames, all_frames, glomap_success, sparse_dir, outputs, lines,
                 exported_frames, uploads, listing>>

\* if callback_url
HasCallback(url) == Truthy(url)

\* Faulty variant of AfterCallback: a failed POST is written into the result.
AfterCallbackRecorded(res, t) ==
  IF t = "down"
  THEN [res EXCEPT !.success = FALSE, !.error = Str(StrOf(ConnectionError))]
  ELSE res

\* The result dict after the callback POST: its failure is caught and printed.
AfterCallback(res, t) == res

\* The completion callback: one POST of the result, its failure only logged;
\* then return result.
SendCallback ==
  /\ pc = "callback"
  /\ Static
  /\ IF HasCallback(request.callback_url)
     THEN /\ callbacks' = Append(callbacks, result)
          /\ result' = AfterCallback(result, transport)
     ELSE UNCHANGED <<callbacks, result>>
  /\ pc' = "returned"
  /\ UNCHANGED <<request, calls, acks, disk, last_line, transport, extracted, work_dir,
                 exc, stages, invocations, running, storage, progress, frames,
                 all_frames, glomap_success, sparse_dir, files, outputs, lines,
                 exported_frames, uploads, listing>>

\* ------------------------------------------------------------ motion job
\* Frames of one camera left on disk by "Cap frames per camera": frame j (from
\* 0) stays when j is in keep_indices.
KeepIndices(n, m) == {SampledIndex(i, n, m) : i \in 0..(m - 1)}

RECURSIVE KeepFrom(_, _, _)
KeepFrom(fs, keep, j) ==
  IF j > Len(fs) THEN <<>>
  ELSE (IF (j - 1) \in keep THEN <<fs[j]>> ELSE <<>>) \o KeepFrom(fs, keep, j + 1)

CapCamera(fs, m) ==
  IF Len(fs) > m THEN KeepFrom(fs, KeepIndices(Len(fs), m), 1) ELSE fs

\* Stage 2: ffmpeg per video (check=True) with the per-camera cap, then
\* organize_frames_for_4dgs copies each camera's frames to data_dir.
ExtractFrames4DUpTo(raw) ==
  /\ pc = "extract"
  /\ Motion
  /\ progress' = SendProgress(progress, "frame_extraction", 10)
  /\ \E failAt \in 0..request.source_videos :
       IF failAt = 0
       THEN \E counts \in [1..request.source_videos -> 0..raw] :
              /\ invocations' = invocations \o [i \in 1..request.source_videos |-> "ffmpeg"]
              /\ extracted' = [i \in 1..request.source_videos |-> CamFrames(i - 1, counts[i])]
              /\ frames' = [i \in 1..request.source_videos |->
                              CapCamera(extracted'[i], request.max_frames)]
              /\ pc' = "features"
              /\ exc' = exc
              /\ stages' = EnterStage(stages, "FrameExtraction")
       ELSE /\ invocations' = invocations \o [i \in 1..failAt |-> "ffmpeg"]
            /\ exc' = CalledProcessError("ffmpeg", 1)
            /\ pc' = "except"
            /\ stages' = FailStage(EnterStage(stages, "FrameExtraction"))
            /\ UNCHANGED <<extracted, frames>>
  /\ UNCHANGED <<request, calls, acks, disk, last_line, transport, work_dir, result,
                 running, storage, callbacks, all_frames, glomap_success, sparse_dir,
                 files, outputs, exported_frames, lines, uploads, listing>>

ExtractFrames4D == ExtractFrames4DUpTo(MaxRaw)

\* Stage 3: every camera's frames are copied into one image directory, then
\* colmap feature_extractor runs; a nonzero return code raises an Exception.
Features4D ==
  /\ pc = "features"
  /\ Motion
  /\ progress' = SendProgress(progress, "colmap_features", 20)
  /\ all_frames' = Flatten(frames)
  /\ invocations' = Append(invocations, "colmap feature_extractor")
  /\ \E code \in ExitCodes :
       IF code = 0
       THEN /\ pc' = "matching"
            /\ exc' = exc
            /\ stages' = EnterStage(stages, "Reconstruction")
       ELSE /\ exc' = PyException("COLMAP feature extraction failed: ")
            /\ pc' = "except"
            /\ stages' = FailStage(EnterStage(stages, "Reconstruction"))
  /\ UNCHANGED <<request, calls, acks, disk, last_line, transport, extracted, work_dir,
                 result, running, storage, callbacks, frames, glomap_success,
                 sparse_dir, files, outputs, exported_frames, lines, uploads, listing>>

\* if total_frames > 500: exhaustive_matcher, else sequential_matcher
ExhaustiveAbove == 500
Matcher(total_frames) ==
  IF total_frames > ExhaustiveAbove
  THEN "colmap exhaustive_matcher"
  ELSE "colmap sequential_matcher"

Matching4D ==
  /\ pc = "matching"
  /\ Motion
  /\ progress' = SendProgress(progress, "colmap_matching", 30)
  /\ invocations' = Append(invocations, Matcher(Len(all_frames)))
  /\ \E code \in ExitCodes :
       IF code = 0
       THEN pc' = "mapper" /\ UNCHANGED <<exc, stages>>
       ELSE Raise(PyException("COLMAP feature matching failed: "))
  /\ UNCHANGED <<request, calls, acks, disk, last_line, transport, extracted, work_dir,
                 result, running, storage, callbacks, frames, all_frames,
                 glomap_success, sparse_dir, files, outputs, exported_frames, lines,
                 uploads, listing>>

\* colmap mapper (the only engine of a motion job), the search for a valid
\* model, and colmap model_converter (check=True) for the point cloud.
Mapper4D ==
  /\ pc = "mapper"
  /\ Motion
  /\ progress' = SendProgress(progress, "colmap_mapper", 40)
  /\ \E code \in ExitCodes :
       IF code # 0
       THEN /\ invocations' = Append(invocations, "colmap mapper")
            /\ Raise(PyException("COLMAP sparse reconstruction failed: "))
            /\ UNCHANGED sparse_dir
       ELSE /\ sparse_dir' \in ModelAfter(sparse_dir)
            /\ IF NoValidModel(sparse_dir')
               THEN /\ invocations' = Append(invocations, "colmap mapper")
                    /\ Raise(NoModelMotion)
               ELSE /\ invocations' = invocations \o <<"colmap mapper", "colmap model_converter">>
                    /\ \E conv \in ExitCodes :
                         IF conv = 0
                         THEN pc' = "training" /\ UNCHANGED <<exc, stages>>
                         ELSE Raise(CalledProcessError("colmap model_converter", conv))
  /\ UNCHANGED <<request, calls, acks, disk, last_line, transport, extracted, work_dir,
                 result, running, storage, callbacks, frames, all_frames,
                 glomap_success, files, outputs, exported_frames, lines, uploads,
                 listing>>

\* Stage 4: progress, the generated config, and Popen of train.py.
Training4DStart ==
  /\ pc = "training"
  /\ Motion
  /\ progress' = SendProgress(progress, "training_4d", 50)
  /\ \E started \in BOOLEAN :
       IF started
       THEN /\ invocations' = Append(invocations, "4DGaussians train.py")
            /\ running' = running \cup {"4DGaussians train.py"}
            /\ pc' = "training_stream"
            /\ exc' = exc
            /\ stages' = EnterStage(stages, "Training")
       ELSE /\ exc' = OSError("popen_fails", "python")
            /\ pc' = "except"
            /\ stages' = FailStage(EnterStage(stages, "Training"))
            /\ UNCHANGED <<invocations, running>>
  /\ UNCHANGED <<request, calls, acks, disk, last_line, transport, extracted, work_dir,
                 result, storage, callbacks, frames, all_frames, glomap_success,
                 sparse_dir, files, outputs, exported_frames, lines, uploads, listing>>

\* One line of train.py output: 50 + int(pct * 0.3) is reported when it parses.
TrainingLine4DOf(maxLines, maxIter) ==
  /\ pc = "training_stream"
  /\ Motion
  /\ lines < maxLines
  /\ lines' = lines + 1
  /\ \E line \in LinesUpTo(maxIter) :
       /\ last_line' = line
       /\ progress' = Forwarded(progress, line, "training_4d", 50, 30)
  /\ UNCHANGED <<request, calls, acks, disk, transport, extracted, pc, work_dir, result,
                 exc, stages, invocations, running, storage, callbacks, frames,
                 all_frames, glomap_success, sparse_dir, files, outputs,
                 exported_frames, uploads, listing>>

TrainingLine4D == TrainingLine4DOf(MaxLines, MaxIter)

TrainingExit4D ==
  /\ pc = "training_stream"
  /\ Motion
  /\ last_line' = None
  /\ running' = running \ {"4DGaussians train.py"}
  /\ \E code \in ExitCodes :
       IF code = 0
       THEN pc' = "export" /\ UNCHANGED <<exc, stages>>
       ELSE Raise(PyException("4DGaussians training failed with code " \o ToString(code)))
  /\ UNCHANGED <<request, calls, acks, disk, transport, extracted, work_dir, result,
                 invocations, storage, progress, callbacks, frames, all_frames,
                 glomap_success, sparse_dir, files, outputs, exported_frames, lines,
                 uploads, listing>>

\* Faulty variant of EmptyExport: the number of exported files is not tested.
EmptyExportUntested(k) == FALSE

\* if len(exported_frames) == 0
EmptyExport(k) == k = 0

\* Stage 5: export_perframe_3DGS.py (check=True), the exported files, their
\* copies frame_NNNNN.ply, and the thumbnail from the first frame of cam00.
Export4DOf(counts) ==
  /\ pc = "export"
  /\ Motion
  /\ progress' = SendProgress(progress, "exporting", 85)
  /\ invocations' = Append(invocations, "4DGaussians export_perframe_3DGS.py")
  /\ \E code \in ExitCodes :
       IF code # 0
       THEN /\ exc' = CalledProcessError("4DGaussians export_perframe_3DGS.py", code)
            /\ pc' = "except"
            /\ stages' = FailStage(EnterStage(stages, "Export"))
            /\ UNCHANGED <<exported_frames, files>>
       ELSE \E dir \in BOOLEAN : \E k \in counts :
              IF ~dir
              THEN /\ k = 0
                   /\ exc' = PyException("Per-frame export failed - no output directory")
                   /\ pc' = "except"
                   /\ stages' = FailStage(EnterStage(stages, "Export"))
                   /\ UNCHANGED <<exported_frames, files>>
              ELSE IF EmptyExport(k)
              THEN /\ exc' = PyException("Per-frame export produced no files")
                   /\ pc' = "except"
                   /\ stages' = FailStage(EnterStage(stages, "Export"))
                   /\ UNCHANGED <<exported_frames, files>>
              ELSE /\ exported_frames' = k
                   /\ files' = IF frames[1] # <<>> THEN files \cup {"thumbnail.jpg"} ELSE files
                   /\ pc' = "upload_frames"
                   /\ exc' = exc
                   /\ stages' = EnterStage(stages, "Export")
  /\ UNCHANGED <<request, calls, acks, disk, last_line, transport, extracted, work_dir,
                 result, running, storage, callbacks, frames, all_frames,
                 glomap_success, sparse_dir, outputs, lines, uploads, listing>>

\* The same, for an export of at most maxK files.
Export4DUpTo(maxK) == Export4DOf(0..maxK)

Export4D == Export4DUpTo(MaxExport)

\* The decimal digits of n, most significant first.
RECURSIVE Digits(_)
Digits(n) == IF n < 10 THEN <<n>> ELSE Append(Digits(n \div 10), n % 10)

\* f"{i:05d}" as digits: zeros in front up to five places, more digits when
\* the number needs them.
PadLimit == 100000
Pad5Digits(i) == [j \in 1..(5 - Len(Digits(i))) |-> 0] \o Digits(i)

\* The order sorted() gives paths: frame_<a>.ply before frame_<b>.ply,
\* character by character.  Where the digits of one name end, its "." stands
\* against a digit of the other and sorts before it.
NameBefore(a, b) ==
  LET x == Pad5Digits(a)
      y == Pad5Digits(b)
  IN \E k \in 1..Len(x) :
       /\ \A j \in 1..(k - 1) : j <= Len(y) /\ x[j] = y[j]
       /\ \/ k <= Len(y) /\ x[k] < y[k]
          \/ k = Len(x) /\ Len(y) > Len(x) /\ x[k] = y[k]

\* output_frames = sorted(frames_output_dir.glob("frame_*.ply")): the index
\* in it of the copy of exported file n, and the exported file at index i,
\* when K files were copied.
OutputIndex(n, K) == Cardinality({m \in 0..(K - 1) : NameBefore(m, n)})
OutputFrame(i, K) == CHOOSE n \in 0..(K - 1) : OutputIndex(n, K) = i

\* f"{i:05d}"
Pad5(i) ==
  (IF i < 10 THEN "0000" ELSE IF i < 100 THEN "000" ELSE IF i < 1000 THEN "00"
   ELSE IF i < 10000 THEN "0" ELSE "") \o ToString(i)

FrameKey(i) == "frames/frame_" \o Pad5(i) \o ".ply"

\* Stage 6 opens with its progress report and an empty frame_urls list.
UploadStart4D ==
  /\ pc = "upload_frames"
  /\ Motion
  /\ outputs = None
  /\ progress' = SendProgress(progress, "uploading", 90)
  /\ outputs' = Put(<<>>, "frameUrls", <<>>)
  /\ stages' = EnterStage(stages, "Uploading")
  /\ UNCHANGED <<request, calls, acks, disk, last_line, transport, extracted, pc,
                 work_dir, result, exc, invocations, running, storage, callbacks,
                 frames, all_frames, glomap_success, sparse_dir, files, exported_frames,
                 lines, uploads, listing>>

\* Faulty variant of UploadCheckpoint: every upload is followed by a report.
UploadCheckpointEveryFrame(i) == TRUE

\* if i % 10 == 0
UploadCheckpoint(i) == i % 10 = 0

\* pct = 90 + int((i / len(output_frames)) * 8).  The float product is the
\* rounded quotient times 8, which is exact, and every multiple of 1/8 is a
\* float, so int() gives the integer floor of 8i/K for every i < K.
UploadPct(i, K) == 90 + (8 * i) \div K

\* One pass of the loop over output_frames, for i = len(frame_urls); a progress
\* report follows every tenth upload.
UploadFrame ==
  /\ pc = "upload_frames"
  /\ Motion
  /\ outputs # None
  /\ LET i == Len(outputs["frameUrls"]) IN
       /\ i < exported_frames
       /\ \E ok \in BOOLEAN :
            IF ok
            THEN /\ storage' = Append(storage, FrameKey(i))
                 /\ uploads' =
                      Append(uploads,
                             [key |-> FrameKey(i),
                              body |-> [frame |-> OutputFrame(i, exported_frames)]])
                 /\ outputs' = Put(outputs, "frameUrls",
                                   Append(outputs["frameUrls"], Url(FrameKey(i))))
                 /\ progress' =
                      IF UploadCheckpoint(i)
                      THEN SendProgress(progress, "uploading", UploadPct(i, exported_frames))
                      ELSE progress
                 /\ UNCHANGED <<pc, exc, stages>>
            ELSE /\ Raise(StorageError(FrameKey(i)))
                 /\ UNCHANGED <<storage, uploads, outputs, progress>>
  /\ UNCHANGED <<request, calls, acks, disk, last_line, transport, extracted, work_dir,
                 result, invocations, running, callbacks, frames, all_frames,
                 glomap_success, sparse_dir, files, exported_frames, lines, listing>>

\* After the loop: metadata.json is written and uploaded.
UploadMetadata ==
  /\ pc = "upload_frames"
  /\ Motion
  /\ outputs # None
  /\ Len(outputs["frameUrls"]) = exported_frames
  /\ \E ok \in BOOLEAN :
       IF ok
       THEN /\ storage' = Append(storage, "metadata.json")
            /\ uploads' =
                 Append(uploads,
                        [key |-> "metadata.json",
                         body |-> [motionEnabled |-> TRUE,
                                   frameCount |-> Len(outputs["frameUrls"]),
                                   frameUrls |-> outputs["frameUrls"]]])
            /\ outputs' = Put(outputs, "metadataUrl", Url("metadata.json"))
            /\ pc' = "upload_thumbnail"
            /\ UNCHANGED <<exc, stages>>
       ELSE /\ Raise(StorageError("metadata.json"))
            /\ UNCHANGED <<storage, uploads, outputs>>
  /\ UNCHANGED <<request, calls, acks, disk, last_line, transport, extracted, work_dir,
                 result, invocations, running, progress, callbacks, frames, all_frames,
                 glomap_success, sparse_dir, files, exported_frames, lines, listing>>

\* thumbnail_url = None; if thumbnail_path.exists(): upload and take its URL.
UploadThumbnail4D ==
  /\ pc = "upload_thumbnail"
  /\ Motion
  /\ IF "thumbnail.jpg" \in files
     THEN \E ok \in BOOLEAN :
            IF ok
            THEN /\ storage' = Append(storage, "thumbnail.jpg")
                 /\ outputs' = Put(outputs, "thumbnailUrl", Url("thumbnail.jpg"))
                 /\ pc' = "upload_scene"
                 /\ UNCHANGED <<exc, stages>>
            ELSE /\ Raise(StorageError("thumbnail.jpg"))
                 /\ UNCHANGED <<storage, outputs>>
     ELSE /\ outputs' = Put(outputs, "thumbnailUrl", None)
          /\ pc' = "upload_scene"
          /\ UNCHANGED <<storage, exc, stages>>
  /\ UNCHANGED <<request, calls, acks, disk, last_line, transport, extracted, work_dir,
                 result, invocations, running, progress, callbacks, frames, all_frames,
                 glomap_success, sparse_dir, files, exported_frames, lines, uploads,
                 listing>>

\* if output_frames: the first frame again, as scene.ply.
UploadScene4D ==
  /\ pc = "upload_scene"
  /\ Motion
  /\ IF exported_frames > 0
     THEN \E ok \in BOOLEAN :
            IF ok
            THEN /\ storage' = Append(storage, "scene.ply")
                 /\ uploads' =
                      Append(uploads,
                             [key |-> "scene.ply",
                              body |-> [frame |-> OutputFrame(0, exported_frames)]])
                 /\ pc' = "finish"
                 /\ UNCHANGED <<exc, stages>>
            ELSE /\ Raise(StorageError("scene.ply"))
                 /\ UNCHANGED <<storage, uploads>>
     ELSE /\ pc' = "finish"
          /\ UNCHANGED <<storage, uploads, exc, stages>>
  /\ UNCHANGED <<request, calls, acks, disk, last_line, transport, extracted, work_dir,
                 result, invocations, running, progress, callbacks, frames, all_frames,
                 glomap_success, sparse_dir, files, outputs, exported_frames, lines,
                 listing>>

\* result["success"] = True; result["outputs"] = {...}
Finish4D ==
  /\ pc = "finish"
  /\ Motion
  /\ result' =
       [result EXCEPT
          !.success = TRUE,
          !.outputs =
            [kind |-> "map",
             map |-> Put(Put(Put(outputs, "motionEnabled", TRUE),
                             "plyUrl", Url("scene.ply")),
                         "frameCount", Len(outputs["frameUrls"]))]]
  /\ stages' = MarkLast(EnterStage(stages, "Complete"), "succeeded")
  /\ pc' = "finally"
  /\ UNCHANGED <<request, calls, acks, disk, last_line, transport, extracted, work_dir,
                 exc, invocations, running, storage, progress, callbacks, frames,
                 all_frames, glomap_success, sparse_dir, files, outputs,
                 exported_frames, lines, uploads, listing>>

\* The motion job reports the stage "complete" before the POST, whatever the
\* result holds.
SendCallback4D ==
  /\ pc = "callback"
  /\ Motion
  /\ IF HasCallback(request.callback_url)
     THEN /\ progress' = SendProgress(progress, "complete", 100)
          /\ callbacks' = Append(callbacks, result)
          /\ result' = AfterCallback(result, transport)
     ELSE UNCHANGED <<progress, callbacks, result>>
  /\ pc' = "returned"
  /\ UNCHANGED <<request, calls, acks, disk, last_line, transport, extracted, work_dir,
                 exc, stages, invocations, running, storage, frames, all_frames,
                 glomap_success, sparse_dir, files, outputs, exported_frames, lines,
                 uploads, listing>>

Next ==
  \/ SetupClient
  \/ SetupWorkDir
  \/ Download
  \/ ExtractFrames
  \/ FeatureExtractor
  \/ SequentialMatcher
  \/ GlomapLaunch
  \/ GlomapWait
  \/ ColmapMapper
  \/ TrainingStart
  \/ TrainingLine
  \/ TrainingExit
  \/ ExportScene
  \/ UploadPly
  \/ UploadCameras
  \/ UploadThumbnail
  \/ Finish
  \/ ExtractFrames4D
  \/ Features4D
  \/ Matching4D
  \/ Mapper4D
  \/ Training4DStart
  \/ TrainingLine4D
  \/ TrainingExit4D
  \/ Export4D
  \/ UploadStart4D
  \/ UploadFrame
  \/ UploadMetadata
  \/ UploadThumbnail4D
  \/ UploadScene4D
  \/ Finish4D
  \/ Except
  \/ Cleanup
  \/ SendCallback
  \/ SendCallback4D

Spec == Init /\ [][Next]_vars

\* ------------------------------------------------------ frame sampler alone
\* The extraction step of a job on one video, with frame counts large enough
\* for the floating-point cases of SampledIndex.
MaxSampleRaw == 30
MaxSampleCap == 26

\* A job that has downloaded its video and is about to extract frames.
SamplerInit ==
  /\ request \in [mode : {"static", "motion"},
                  callback_url : CallbackUrls \ {None},
                  source_videos : {1},
                  max_frames : 1..MaxSampleCap,
                  production_id : {"prod-a"},
                  experience_id : {"exp-a"}]
  /\ pc = "extract"
  /\ work_dir = TRUE
  /\ result = InitialResult
  /\ exc = None
  /\ stages = EnterStage(<<>>, "Downloading")
  /\ invocations = <<>>
  /\ running = {}
  /\ storage = <<>>
  /\ progress = SendProgress(<<>>, "downloading", 5)
  /\ callbacks = <<>>
  /\ frames = <<>>
  /\ all_frames = <<>>
  /\ glomap_success = FALSE
  /\ sparse_dir = FALSE
  /\ files = {}
  /\ outputs = None
  /\ exported_frames = 0
  /\ lines = 0
  /\ extracted = <<>>
  /\ transport \in {"up", "down"}
  /\ last_line = None
  /\ calls = <<>>
  /\ acks = <<>>
  /\ disk = {}
  /\ uploads = <<>>
  /\ listing = None

SampleStatic == ExtractFramesUpTo(MaxSampleRaw)
SampleMotion == ExtractFrames4DUpTo(MaxSampleRaw)

SamplerNext ==
  \/ SampleStatic
  \/ SampleMotion

SamplerSpec == SamplerInit /\ [][SamplerNext]_vars

\* ------------------------------------------------- training output alone
\* The training stage of a job on one video and one frame, reading more lines
\* with larger numbers than the whole pipeline is explored with.
MaxStreamLines == 2
MaxStreamIter == 3

\* The trainer has just been started: OpenSplat after a GLOMAP
\* reconstruction, train.py after the COLMAP one.
TrainingInit ==
  /\ request \in [mode : {"static", "motion"},
                  callback_url : {u \in CallbackUrls : Truthy(u)},
                  source_videos : {1},
                  max_frames : {1},
                  production_id : {"prod-a"},
                  experience_id : {"exp-a"}]
  /\ pc = "training_stream"
  /\ work_dir = TRUE
  /\ result = InitialResult
  /\ exc = None
  /\ stages = <<[name |-> "Downloading", status |-> "succeeded"],
                [name |-> "FrameExtraction", status |-> "succeeded"],
                [name |-> "Reconstruction", status |-> "succeeded"],
                [name |-> "Training", status |-> "running"]>>
  /\ invocations =
       IF Static
       THEN <<"ffmpeg", "colmap feature_extractor", "colmap sequential_matcher",
              "glomap mapper", "opensplat">>
       ELSE <<"ffmpeg", "colmap feature_extractor", "colmap sequential_matcher",
              "colmap mapper", "colmap model_converter", "4DGaussians train.py">>
  /\ running = IF Static THEN {"opensplat"} ELSE {"4DGaussians train.py"}
  /\ storage = <<>>
  /\ progress =
       IF Static
       THEN <<[stage |-> "downloading", progress |-> 5],
              [stage |-> "frame_extraction", progress |-> 15],
              [stage |-> "colmap_features", progress |-> 25],
              [stage |-> "colmap_matching", progress |-> 35],
              [stage |-> "glomap", progress |-> 50],
              [stage |-> "training", progress |-> 70]>>
       ELSE <<[stage |-> "downloading", progress |-> 5],
              [stage |-> "frame_extraction", progress |-> 10],
              [stage |-> "colmap_features", progress |-> 20],
              [stage |-> "colmap_matching", progress |-> 30],
              [stage |-> "colmap_mapper", progress |-> 40],
              [stage |-> "training_4d", progress |-> 50]>>
  /\ callbacks = <<>>
  /\ frames = <<CamFrames(0, 1)>>
  /\ all_frames = CamFrames(0, 1)
  /\ glomap_success = Static
  /\ sparse_dir = TRUE
  /\ files = {}
  /\ outputs = None
  /\ exported_frames = 0
  /\ lines = 0
  /\ extracted = <<CamFrames(0, 1)>>
  /\ transport \in {"up", "down"}
  /\ last_line = None
  /\ calls = <<>>
  /\ acks = <<>>
  /\ disk = {}
  /\ uploads = <<>>
  /\ listing = None

StreamStatic == TrainingLineOf(MaxStreamLines, MaxStreamIter)
StreamMotion == TrainingLine4DOf(MaxStreamLines, MaxStreamIter)

TrainingNext ==
  \/ StreamStatic
  \/ StreamMotion

TrainingSpec == TrainingInit /\ [][TrainingNext]_vars

\* ------------------------------------------------- triggers and concurrent jobs
\* The two trigger endpoints and the function calls they spawn, each call
\* followed only from its work directory's creation to its removal.  The
\* variables of the single job above stay as they start.
MaxCalls == 2

ProductionIds == {"prod-a", "prod-b"}

\* The JSON bodies POSTed to a trigger endpoint, by their production_id.
TriggerBodies == [production_id : ProductionIds]

\* Faulty variant of Spawn: the function is called in line and has returned
\* when the endpoint goes on.
SpawnAndWait(cs, fn, pid) ==
  Append(cs, [call_id |-> Len(cs) + 1, function |-> fn, production_id |-> pid,
              status |-> "returned", work_dir |-> None])

\* fn.spawn(production_id = ..., ...): one call is queued and its handle
\* returned at once; call_id stands for call.object_id.
Spawn(cs, fn, pid) ==
  Append(cs, [call_id |-> Len(cs) + 1, function |-> fn, production_id |-> pid,
              status |-> "pending", work_dir |-> None])

\* POST to trigger: spawn process_production, return the acknowledgment.
Trigger ==
  /\ Len(calls) < MaxCalls
  /\ \E data \in TriggerBodies :
       /\ calls' = Spawn(calls, "process_production", data.production_id)
       /\ acks' = Append(acks, [success |-> TRUE,
                                message |-> "Processing started",
                                call_id |-> calls'[Len(calls')].call_id,
                                production_id |-> data.production_id])
  /\ UNCHANGED <<disk, request, pc, work_dir, result, exc, stages, invocations, running,
                 storage, progress, callbacks, frames, all_frames, glomap_success,
                 sparse_dir, files, outputs, exported_frames, lines, extracted,
                 transport, last_line, uploads, listing>>

\* POST to trigger_4d: spawn process_production_4d, return the acknowledgment.
Trigger4D ==
  /\ Len(calls) < MaxCalls
  /\ \E data \in TriggerBodies :
       /\ calls' = Spawn(calls, "process_production_4d", data.production_id)
       /\ acks' = Append(acks, [success |-> TRUE,
                                message |-> "4D Motion processing started",
                                call_id |-> calls'[Len(calls')].call_id,
                                production_id |-> data.production_id,
                                motion_enabled |-> TRUE])
  /\ UNCHANGED <<disk, request, pc, work_dir, result, exc, stages, invocations, running,
                 storage, progress, callbacks, frames, all_frames, glomap_success,
                 sparse_dir, files, outputs, exported_frames, lines, extracted,
                 transport, last_line, uploads, listing>>

\* f"gv-{production_id}-" and f"gv4d-{production_id}-"
Prefix(fn) == IF fn = "process_production" THEN "gv" ELSE "gv4d"

\* Faulty variant of MkDtemp: the directory is named after the production alone.
MkDirFixed(fn, pid, present) == {<<Prefix(fn), pid, 0>>}

\* tempfile.mkdtemp(prefix = ...): a directory is created under a name that
\* was not present, the prefix followed by a random suffix.
MkDtemp(fn, pid, present) ==
  {<<Prefix(fn), pid, n>> : n \in 1..MaxCalls} \ present

\* A spawned call starts: the job function creates its work directory.
JobSetup ==
  /\ \E c \in 1..Len(calls) :
       /\ calls[c].status = "pending"
       /\ \E d \in MkDtemp(calls[c].function, calls[c].production_id, disk) :
            /\ disk' = disk \cup {d}
            /\ calls' = [calls EXCEPT ![c].status = "running", ![c].work_dir = d]
  /\ UNCHANGED <<acks, request, pc, work_dir, result, exc, stages, invocations, running,
                 storage, progress, callbacks, frames, all_frames, glomap_success,
                 sparse_dir, files, outputs, exported_frames, lines, extracted,
                 transport, last_line, uploads, listing>>

\* finally: shutil.rmtree(work_dir, ignore_errors=True)
JobCleanup ==
  /\ \E c \in 1..Len(calls) :
       /\ calls[c].status = "running"
       /\ disk' = disk \ {calls[c].work_dir}
       /\ calls' = [calls EXCEPT ![c].status = "cleaned"]
  /\ UNCHANGED <<acks, request, pc, work_dir, result, exc, stages, invocations, running,
                 storage, progress, callbacks, frames, all_frames, glomap_success,
                 sparse_dir, files, outputs, exported_frames, lines, extracted,
                 transport, last_line, uploads, listing>>

\* return result
JobReturn ==
  /\ \E c \in 1..Len(calls) :
       /\ calls[c].status = "cleaned"
       /\ calls' = [calls EXCEPT ![c].status = "returned"]
  /\ UNCHANGED <<acks, disk, request, pc, work_dir, result, exc, stages, invocations,
                 running, storage, progress, callbacks, frames, all_frames,
                 glomap_success, sparse_dir, files, outputs, exported_frames, lines,
                 extracted, transport, last_line, uploads, listing>>

PlatformInit ==
  /\ Init
  /\ request = [mode |-> "static", callback_url |-> None, source_videos |-> 1,
                max_frames |-> 1, production_id |-> "prod-a",
                experience_id |-> "exp-a"]
  /\ transport = "up"

PlatformNext ==
  \/ Trigger
  \/ Trigger4D
  \/ JobSetup
  \/ JobCleanup
  \/ JobReturn

PlatformSpec == PlatformInit /\ [][PlatformNext]_vars

\* ------------------------------------------------------------ job identity
\* The whole job, for requests that differ in production_id and experience_id.
ExperienceIds == {"exp-a", "exp-b"}

EnvelopeInit ==
  InitWith([mode : {"static", "motion"},
            callback_url : CallbackUrls,
            source_videos : {1},
            max_frames : {1},
            production_id : ProductionIds,
            experience_id : ExperienceIds])

EnvelopeSpec == EnvelopeInit /\ [][Next]_vars

\* ----------------------------------------------------------- motion upload
\* The upload of a motion job whose export produced up to MaxUploadFrames
\* files, from the state in which its training has just ended: one video of
\* one frame, every command so far run once.
MaxUploadFrames == 21

UploadInit ==
  /\ request \in [mode : {"motion"},
                  callback_url : CallbackUrls \ {None},
                  source_videos : {1},
                  max_frames : {1},
                  production_id : {"prod-a"},
                  experience_id : {"exp-a"}]
  /\ pc = "export"
  /\ work_dir = TRUE
  /\ result = InitialResult
  /\ exc = None
  /\ stages = <<[name |-> "Downloading", status |-> "succeeded"],
                [name |-> "FrameExtraction", status |-> "succeeded"],
                [name |-> "Reconstruction", status |-> "succeeded"],
                [name |-> "Training", status |-> "running"]>>
  /\ invocations = <<"ffmpeg", "colmap feature_extractor", "colmap sequential_matcher",
                     "colmap mapper", "colmap model_converter", "4DGaussians train.py">>
  /\ running = {}
  /\ storage = <<>>
  /\ progress = <<[stage |-> "downloading", progress |-> 5],
                  [stage |-> "frame_extraction", progress |-> 10],
                  [stage |-> "colmap_features", progress |-> 20],
                  [stage |-> "colmap_matching", progress |-> 30],
                  [stage |-> "colmap_mapper", progress |-> 40],
                  [stage |-> "training_4d", progress |-> 50]>>
  /\ callbacks = <<>>
  /\ frames = <<CamFrames(0, 1)>>
  /\ all_frames = CamFrames(0, 1)
  /\ glomap_success = FALSE
  /\ sparse_dir = TRUE
  /\ files = {}
  /\ outputs = None
  /\ exported_frames = 0
  /\ lines = 0
  /\ extracted = <<CamFrames(0, 1)>>
  /\ transport \in {"up", "down"}
  /\ last_line = None
  /\ calls = <<>>
  /\ acks = <<>>
  /\ disk = {}
  /\ uploads = <<>>
  /\ listing = None

ExportMany == Export4DUpTo(MaxUploadFrames)

UploadNext ==
  \/ ExportMany
  \/ UploadStart4D
  \/ UploadFrame
  \/ UploadMetadata
  \/ UploadThumbnail4D
  \/ UploadScene4D
  \/ Finish4D
  \/ Except
  \/ Cleanup

UploadSpec == UploadInit /\ [][UploadNext]_vars

\* ------------------------------------------------------------ upload order
\* The order of output_frames, for exports of up to MaxOrderFrames files and
\* for the first export whose last file needs a sixth digit.  One file of the
\* export is looked up in the sorted list: any file of a small export, the
\* first or the last of the large one.
MaxOrderFrames == 12

ExportSome == Export4DOf((0..MaxOrderFrames) \cup {PadLimit + 1})

ListOutput ==
  /\ pc = "upload_frames"
  /\ Motion
  /\ outputs # None
  /\ outputs["frameUrls"] = <<>>
  /\ listing = None
  /\ \E n \in (IF exported_frames <= MaxOrderFrames
               THEN 0..(exported_frames - 1)
               ELSE {0, exported_frames - 1}) :
       listing' = [frame |-> n, index |-> OutputIndex(n, exported_frames)]
  /\ UNCHANGED <<request, pc, work_dir, result, exc, stages, invocations, running,
                 storage, progress, callbacks, frames, all_frames, glomap_success,
                 sparse_dir, files, outputs, exported_frames, lines, extracted,
                 transport, last_line, calls, acks, disk, uploads>>

OrderNext ==
  \/ ExportSome
  \/ UploadStart4D
  \/ ListOutput

OrderSpec == UploadInit /\ [][OrderNext]_vars

\* ------------------------------------------------------ children that hang
\* The positions at which the job waits for a child process without a
\* timeout: subprocess.run without timeout= (ffmpeg, feature_extractor, the
\* matchers, the motion job's mapper, model_converter, the export script) and
\* the loops over process.stdout (GLOMAP, the trainers).  The secondary
\* engine at "fallback" is the one child run with a timeout.
WaitsUnbounded ==
  {"extract", "features", "matching", "glomap_wait", "mapper", "training_stream",
   "export"}

\* The child the job is waiting for never exits and never closes its output.
Hang ==
  /\ pc \in WaitsUnbounded
  /\ pc' = "hung"
  /\ UNCHANGED <<request, calls, acks, disk, last_line, transport, extracted, work_dir,
                 result, exc, stages, invocations, running, storage, progress,
                 callbacks, frames, all_frames, glomap_success, sparse_dir, files,
                 outputs, exported_frames, lines, uploads, listing>>

\* @app.function(timeout=14400) (motion: 43200): the platform ends the call.
\* The job function is not resumed: no handler of it runs, nothing is POSTed
\* or returned; whether its work directory outlives the container is open.
FunctionTimeout ==
  /\ pc = "hung"
  /\ pc' = "killed"
  /\ work_dir' \in {work_dir, FALSE}
  /\ UNCHANGED <<request, calls, acks, disk, last_line, transport, extracted, result,
                 exc, stages, invocations, running, storage, progress, callbacks,
                 frames, all_frames, glomap_success, sparse_dir, files, outputs,
                 exported_frames, lines, uploads, listing>>

HangNext ==
  \/ Next
  \/ Hang
  \/ FunctionTimeout

\* Every step that can be taken is taken in the end.
HangSpec == Init /\ [][HangNext]_vars /\ WF_vars(HangNext)

\* ================================================================== claims
Invoked(cmd) == \E i \in 1..Len(invocations) : invocations[i] = cmd
Stored(key) == \E i \in 1..Len(storage) : storage[i] = key
StageNames == [i \in 1..Len(stages) |-> stages[i].name]
Entered(name) == \E i \in 1..Len(stages) : stages[i].name = name
StatusOf(name) ==
  IF Entered(name)
  THEN (CHOOSE st \in {stages[i] : i \in 1..Len(stages)} : st.name = name).status
  ELSE "pending"
\* The last stage entered was left by an exception.
StageFailed == stages # <<>> /\ stages[Len(stages)].status = "failed"
\* The job function is past its try statement.
Decided == pc \in {"finally", "callback", "returned"}

\* C1: once a stage has failed, no stage is entered, no external program is
\* started and nothing is uploaded any more, and the job returns a result with
\* success = False, no outputs and str() of the exception as its error.
C1_FailureHalts ==
  /\ [][StageFailed => /\ stages' = stages
                       /\ invocations' = invocations
                       /\ running' = running
                       /\ storage' = storage]_vars
  /\ [](StageFailed /\ pc = "returned" =>
          /\ result.success = FALSE
          /\ result.outputs = None
          /\ exc # None
          /\ result.error = Str(StrOf(exc)))

C1_Witness ==
  /\ pc = "returned"
  /\ StageFailed
  /\ StatusOf("Training") = "failed"
  /\ Invoked("opensplat")
  /\ result.error = Str(<<"Gaussian Splatting training failed - error code 1">>)

\* C2: the work area is gone in the state the completion callback is sent
\* from, and it does not exist once the job function has returned, whether
\* the job succeeded or a stage failed.
C2_CleanupBeforeCallback ==
  /\ [][callbacks' # callbacks => ~work_dir /\ ~work_dir']_vars
  /\ [](pc = "returned" => ~work_dir)

C2_Witness ==
  /\ pc = "returned"
  /\ StageFailed
  /\ Len(callbacks) = 1
  /\ ~work_dir

\* C3 (as claimed): every started job that has ended, by return or by an
\* exception of its setup, has sent the completion callback exactly once, with
\* the result as its body.
C3_CallbackExactlyOnce ==
  pc \in {"returned", "raised"} => Len(callbacks) = 1 /\ callbacks[1] = result

\* The artifacts a job of the given mode must publish, as the claim lists them.
RequiredKeys(mode) ==
  {"scene.ply", "cameras.json", "thumbnail.jpg"} \cup
  (IF mode = "motion"
   THEN {"metadata.json"} \cup {FrameKey(i) : i \in 0..(exported_frames - 1)}
   ELSE {})

AllPublished ==
  /\ \A k \in RequiredKeys(request.mode) : Stored(k)
  /\ request.mode = "motion" => exported_frames >= 1

\* C4 (as claimed): the returned result has success = True exactly when every
\* artifact required for the job's mode was uploaded, and then outputs holds a
\* URL for scene.ply, cameras.json and thumbnail.jpg.
C4_SuccessIffAllArtifacts ==
  pc = "returned" =>
    /\ result.success <=> AllPublished
    /\ result.success =>
         \A f \in {"plyUrl", "camerasUrl", "thumbnailUrl"} :
           /\ f \in DOMAIN result.outputs.map
           /\ result.outputs.map[f] # None

\* The primary engine was reached and did not succeed: its binary could not be
\* made executable or started, or the process exited with a nonzero status.
PrimaryFailed ==
  /\ Static
  /\ \E i \in 1..Len(progress) : progress[i] = [stage |-> "glomap", progress |-> 50]
  /\ pc \notin {"glomap", "glomap_wait"}
  /\ ~glomap_success

\* C5 (as claimed): a static job whose primary engine failed, for whatever
\* reason, cannot fail before the secondary engine has been run.
C5_FallbackOnAnyPrimaryFailure ==
  PrimaryFailed /\ StageFailed => Invoked("colmap mapper")

\* C6: when the primary engine succeeded the secondary engine is never
\* started, and the secondary is never started while the primary runs.
C6_ShortCircuit ==
  /\ [](glomap_success => ~Invoked("colmap mapper"))
  /\ [][Len(invocations') > Len(invocations)
        /\ invocations'[Len(invocations')] = "colmap mapper"
        => "glomap mapper" \notin running]_vars
  /\ []("glomap mapper" \in running => pc = "glomap_wait")

C6_Witness ==
  /\ pc = "returned"
  /\ glomap_success
  /\ result.success
  /\ Invoked("glomap mapper")

IsMapper(cmd) == cmd \in {"glomap mapper", "colmap mapper"}

\* The secondary engine ran after a failed primary and exited 0 in time.
FallbackSucceeded ==
  /\ Static
  /\ ~glomap_success
  /\ Invoked("colmap mapper")
  /\ exc \notin {MapperFailure("nonzero"), MapperFailure("timeout")}

\* C7: when the primary engine fails and the secondary succeeds, exactly two
\* mapper attempts were made, the primary's then the secondary's, the
\* reconstruction stage is not failed, and the Training stage is the next one
\* entered.
C7_TwoAttemptsThenTraining ==
  FallbackSucceeded =>
    /\ SelectSeq(invocations, IsMapper) = <<"glomap mapper", "colmap mapper">>
    /\ IF pc = "training"
       THEN StatusOf("Reconstruction") = "running" /\ exc = None
       ELSE /\ StatusOf("Reconstruction") = "succeeded"
            /\ Len(stages) >= 4
            /\ stages[4].name = "Training"

C7_Witness ==
  /\ FallbackSucceeded
  /\ pc = "training_stream"
  /\ StatusOf("Training") = "running"

\* Both mapper attempts of a static job failed.
BothFailed ==
  /\ Static
  /\ Invoked("glomap mapper")
  /\ Invoked("colmap mapper")
  /\ StatusOf("Reconstruction") = "failed"

\* C8: when both engines fail the reconstruction stage and the job fail, and
\* the error of the result is the secondary's failure (its nonzero exit or its
\* timeout), not the primary's.
C8_SecondaryErrorReported ==
  BothFailed /\ Decided =>
    /\ result.success = FALSE
    /\ result.error \in {Str(StrOf(CalledProcessError("colmap mapper", 1))),
                         Str(<<"Reconstruction timed out after 3 hours - try reducing video count or duration">>)}
    /\ result.error # Str(StrOf(CalledProcessError("glomap mapper", 1)))

C8_Witness ==
  /\ BothFailed
  /\ pc = "returned"
  /\ result.error = Str(<<"Command", "colmap mapper", "returned non-zero exit status", "1">>)

DownloadFailed == StatusOf("Downloading") = "failed"

\* C9: a job whose Downloading stage failed enters no other stage and uploads
\* nothing, and its result has success = False and a non-empty error string.
C9_DownloadFailure ==
  DownloadFailed =>
    /\ Len(stages) = 1
    /\ storage = <<>>
    /\ Decided =>
         /\ result.success = FALSE
         /\ result.error.kind = "str"
         /\ result.error.text # <<>>
         /\ \A i \in 1..Len(result.error.text) : result.error.text[i] # ""

C9_Witness ==
  /\ DownloadFailed
  /\ pc = "returned"
  /\ result.error = Str(<<"<urlopen error>">>)

ExactIndex(i, n, m) == (i * n) \div m

\* The uniform sample of fs down to m frames at the exact indices.
ExactSample(fs, m) == [i \in 1..m |-> fs[ExactIndex(i - 1, Len(fs), m) + 1]]

\* Frame extraction has run to its end.
Sampled == extracted # <<>>

\* C11: when N frames are sampled down to M < N, the frames kept are exactly
\* those at source indices floor(i * N / M), i = 0..M-1, in order (hence M
\* distinct increasing indices from 0, spaced floor(N/M) or ceil(N/M) apart).
\* N is the merged frame count of a static job, a camera's own count of a
\* motion job.
C11_ExactFloorIndices ==
  Sampled =>
    IF Static
    THEN Len(Flatten(extracted)) > request.max_frames
           => all_frames = ExactSample(Flatten(extracted), request.max_frames)
    ELSE \A c \in 1..Len(extracted) :
           Len(extracted[c]) > request.max_frames
             => frames[c] = ExactSample(extracted[c], request.max_frames)

\* C12: when the number of extracted frames N is at most the cap M, every
\* frame is kept, in its order.
C12_IdentityWithinCap ==
  Sampled =>
    IF Static
    THEN Len(Flatten(extracted)) <= request.max_frames
           => all_frames = Flatten(extracted)
    ELSE \A c \in 1..Len(extracted) :
           Len(extracted[c]) <= request.max_frames => frames[c] = extracted[c]

\* A static job whose frame count is positive and below the cap.
C12_Witness ==
  /\ Sampled
  /\ Static
  /\ Len(Flatten(extracted)) > 1
  /\ Len(Flatten(extracted)) < request.max_frames
  /\ all_frames = Flatten(extracted)

\* The Frame Sampler applied to one camera's frames, at the exact indices.
SampleOf(fs, m) == IF Len(fs) > m THEN ExactSample(fs, m) ELSE fs

\* C13: in a job on several videos each camera's frames are sampled on their
\* own, and the frames handed on are the merge of the per-camera samples (the
\* merged pool is never what is sampled).
C13_SampledPerCamera ==
  Sampled =>
    LET per == [c \in 1..Len(extracted) |-> SampleOf(extracted[c], request.max_frames)]
    IN IF Static THEN all_frames = Flatten(per) ELSE frames = per

\* An external program other than ffmpeg was started.
EngineStarted == \E i \in 1..Len(invocations) : invocations[i] # "ffmpeg"

\* C14: when extraction ends with no frame from any camera, no reconstruction
\* engine (feature extractor, matcher, mapper) is ever started and the job
\* fails.
C14_NoFramesFailsFast ==
  (Sampled /\ Flatten(extracted) = <<>>) =>
    /\ ~EngineStarted
    /\ Decided => ~result.success

\* C15: the percentages passed to send_progress, taken in call order, never
\* decrease within a job, whatever lines the trainer prints.
C15_ProgressNonDecreasing ==
  \A i \in 1..(Len(progress) - 1) : progress[i].progress <= progress[i + 1].progress

\* ------------------------------------------------ transport and storage
\* C16: when the POSTs of the progress reports fail, the job is not
\* interrupted by them: no transport error is ever in flight or reported, and
\* the job goes past its first report as it does when reports are delivered.
C16_ProgressFailureHarmless ==
  (transport = "down" /\ request.callback_url # None) =>
    /\ exc # ConnectionError
    /\ pc \notin {"start", "mkdtemp", "raised", "download"} => progress # <<>>
    /\ (Decided /\ ~result.success) => result.error # Str(StrOf(ConnectionError))

\* A job none of whose reports was delivered has published and succeeded.
C16_Witness ==
  /\ transport = "down"
  /\ pc = "returned"
  /\ result.success
  /\ storage # <<>>
  /\ Len(progress) > 7

\* The exception in flight came from an upload.
UploadFailed == exc # None /\ exc.type = "StorageException"

\* C17: when the upload of an artifact fails the job fails whole: the result
\* has success = false, no outputs and the upload's error, whatever was
\* uploaded before.
C17_UploadFailureNoPartialSuccess ==
  (UploadFailed /\ Decided) =>
    /\ ~result.success
    /\ result.outputs = None
    /\ result.error = Str(StrOf(exc))

\* An upload failed after another artifact had been stored.
C17_Witness ==
  /\ UploadFailed
  /\ Decided
  /\ storage # <<>>
  /\ outputs # <<>>

\* C18: nothing written to storage is ever removed: every step keeps the keys
\* stored so far, the steps of the failure path included.
C18_StoredArtifactsRemain ==
  [][/\ Len(storage') >= Len(storage)
     /\ \A i \in 1..Len(storage) : storage'[i] = storage[i]]_vars

\* A job has returned a failure while artifacts of it are stored.
C18_Witness ==
  /\ pc = "returned"
  /\ ~result.success
  /\ result.outputs = None
  /\ storage # <<>>

\* C19: when the POST of the completion callback fails, the result returned is
\* the one decided before it, and the callback is attempted once only.
C19_CallbackFailureKeepsResult ==
  [][(pc = "callback" /\ transport = "down") =>
       /\ result' = result
       /\ pc' = "returned"
       /\ Len(callbacks') <= 1]_vars

\* A successful job has returned after its callback POST failed.
C19_Witness ==
  /\ transport = "down"
  /\ pc = "returned"
  /\ Len(callbacks) = 1
  /\ result.success

\* C20: a timeout of the secondary engine fails the job (no training stage
\* follows), with a timed-out reason that differs from the error of a nonzero
\* exit of that engine.
C20_SecondaryTimeoutFatal ==
  (Static /\ exc = MapperFailure("timeout")) =>
    /\ pc \in {"except", "finally", "callback", "returned"}
    /\ ~Entered("Training")
    /\ Decided =>
         /\ ~result.success
         /\ result.error =
              Str(<<"Reconstruction timed out after 3 hours - try reducing video count or duration">>)
         /\ result.error # Str(StrOf(CalledProcessError("colmap mapper", 1)))

\* The job has returned after the secondary engine timed out.
C20_Witness ==
  /\ exc = MapperFailure("timeout")
  /\ StatusOf("Reconstruction") = "failed"
  /\ pc = "returned"

\* ------------------------------------------------------------ empty export
\* The temporal export has run and left no per-timestamp file to publish.
ExportedNothing ==
  /\ Motion
  /\ Invoked("4DGaussians export_perframe_3DGS.py")
  /\ exported_frames = 0

\* C21: a motion job whose export yields no per-frame file fails there: it
\* stores nothing, under frames/ or elsewhere, and its result is a failure
\* whose error names the export.
C21_EmptyExportFails ==
  ExportedNothing =>
    /\ pc \in {"except", "finally", "callback", "returned"}
    /\ storage = <<>>
    /\ exc \in {PyException("Per-frame export produced no files"),
                PyException("Per-frame export failed - no output directory"),
                CalledProcessError("4DGaussians export_perframe_3DGS.py", 1)}
    /\ Decided => (~result.success /\ result.error = Str(StrOf(exc)))

\* The job has returned the error of an export that wrote no file.
C21_Witness ==
  /\ ExportedNothing
  /\ pc = "returned"
  /\ result.error = Str(<<"Per-frame export produced no files">>)

\* ------------------------------------------------- notifications and caps
\* A report for the stage "complete" has been sent.
CompleteReported == \E i \in 1..Len(progress) : progress[i].stage = "complete"

\* C24: a job that returns a result with success = false has sent no report
\* for the stage "complete".
C24_NoCompleteAfterFailure ==
  (pc = "returned" /\ ~result.success) => ~CompleteReported

\* C25: in a motion job the frames of all cameras handed to the feature
\* extractor number at most maxFrames.
C25_MotionTotalWithinCap ==
  (Motion /\ Invoked("colmap feature_extractor")) =>
    Len(all_frames) <= request.max_frames

\* -------------------------------------------------------- training reports
\* C27: every percentage passed to send_progress lies within 0..100, whatever
\* current/total pairs the trainer prints.
C27_PercentWithinRange ==
  \A i \in 1..Len(progress) : progress[i].progress \in 0..100

\* The training loop has just read a line n/d that parses, with 0 <= n <= d.
ReadFraction ==
  /\ pc = "training_stream"
  /\ last_line # None
  /\ Reports(last_line)
  /\ last_line.token.cur <= last_line.token.tot

\* C28: for a line n/d with 0 <= n <= d, d > 0, the percentage reported is
\* 70 + floor(15n/d), within 70..85, in a static job and 50 + floor(30n/d),
\* within 50..80, in a motion job.
C28_WindowedPercent ==
  ReadFraction =>
    LET n == last_line.token.cur
        d == last_line.token.tot
        v == progress[Len(progress)].progress
    IN IF Static
       THEN v = 70 + (15 * n) \div d /\ v \in 70..85
       ELSE v = 50 + (30 * n) \div d /\ v \in 50..80

\* The exceptions a training stage fails with.
TrainingFailures ==
  {NoModelStatic,
   OSError("popen_fails", "opensplat"),
   OSError("popen_fails", "python"),
   PyException("Gaussian Splatting training failed - error code 1"),
   PyException("4DGaussians training failed with code 1")}

\* C29: a line of training output that does not parse (no fraction, parts
\* that are no integers, a zero total) sends no report and leaves the job
\* reading the trainer's output; the training stage fails only with the
\* errors of starting the trainer or of its exit status.
C29_UnparseableLineIgnored ==
  [][/\ (lines' = lines + 1 /\ ~Reports(last_line')) =>
          /\ progress' = progress
          /\ pc' = "training_stream"
          /\ exc' = exc
          /\ stages' = stages
     /\ (stages' # <<>> /\ stages'[Len(stages')] = [name |-> "Training", status |-> "failed"])
          => exc' \in TrainingFailures]_vars

\* The last line read named an iteration with a zero total.
C29_Witness ==
  /\ pc = "training_stream"
  /\ last_line # None
  /\ last_line.iteration
  /\ last_line.token = [kind |-> "frac", cur |-> 1, tot |-> 0]
  /\ progress[Len(progress)].progress \in {50, 70}

\* ------------------------------------------------------ fallback checkpoint
\* The reports of the fallback transition sent so far.
FallbackCheckpoints ==
  Cardinality({i \in 1..Len(progress) : progress[i] = [stage |-> "glomap", progress |-> 55]})

\* C30: the fallback checkpoint is reported once when the primary engine has
\* failed and never otherwise, and it is reported by the time the secondary
\* engine is started.
C30_FallbackCheckpointOnce ==
  Static =>
    /\ FallbackCheckpoints <= 1
    /\ ~PrimaryFailed => FallbackCheckpoints = 0
    /\ (PrimaryFailed /\ pc # "fallback") => FallbackCheckpoints = 1
    /\ Invoked("colmap mapper") => FallbackCheckpoints = 1

\* ------------------------------------------------------------- concurrency
\* Every acknowledgment names the one call spawned for its request.
AcksMatchCalls ==
  /\ Len(acks) = Len(calls)
  /\ \A i \in 1..Len(acks) :
       /\ acks[i].success
       /\ acks[i].call_id = calls[i].call_id
       /\ acks[i].production_id = calls[i].production_id
  /\ \A i, j \in 1..Len(calls) : calls[i].call_id = calls[j].call_id => i = j

\* C22: each trigger request spawns exactly one call and is acknowledged
\* with that call's id and the request's production_id while the call is
\* still pending; a trigger is possible whatever the other calls are doing.
C22_TriggerDispatchesOnce ==
  [][/\ AcksMatchCalls'
     /\ Len(acks') > Len(acks) =>
          /\ Len(acks') = Len(acks) + 1
          /\ calls'[Len(calls')].status = "pending"
          /\ \A c \in 1..Len(calls) : calls'[c] = calls[c]
     /\ Len(calls) < MaxCalls => ENABLED Trigger /\ ENABLED Trigger4D]_vars

\* A request has been acknowledged while an earlier call is still running.
C22_Witness ==
  /\ Len(acks) = 2
  /\ calls[1].status = "running"
  /\ calls[2].status = "pending"

\* C23: two calls that are running have different work directories, also
\* when they were triggered for the same production; the work directory of a
\* running call is on disk, whatever other calls have removed.
C23_WorkAreasIsolated ==
  \A i, j \in 1..Len(calls) :
    /\ calls[i].status = "running" => calls[i].work_dir \in disk
    /\ (i # j /\ calls[i].status = "running" /\ calls[j].status = "running")
         => calls[i].work_dir # calls[j].work_dir

\* Of two calls of one function for one production, one has removed its
\* work directory while the other runs.
C23_Witness ==
  /\ Len(calls) = 2
  /\ calls[1].function = calls[2].function
  /\ calls[1].production_id = calls[2].production_id
  /\ calls[1].status = "cleaned"
  /\ calls[2].status = "running"
  /\ calls[2].work_dir \in disk

\* -------------------------------------------------------------- termination
\* C26: when the child a job waits for hangs, the next thing that happens to
\* the job is the failure of that stage (the child is ended by a timeout and
\* the job goes to its handler, from where it returns its result).
C26_HungChildTimesOut == [][pc = "hung" => pc' = "except"]_vars

\* ------------------------------------------------------- reconstruction output
\* The mapper (of a static job: one of the two) ran to a zero exit status and
\* the search of its output found no valid model.
NoModelProduced ==
  /\ ~sparse_dir
  /\ IF Static
     THEN /\ Entered("Training")
          /\ glomap_success \/ Invoked("colmap mapper")
     ELSE /\ Invoked("colmap mapper")
          /\ exc # PyException("COLMAP sparse reconstruction failed: ")

\* C31: without a valid model in the reconstruction output no training engine
\* is ever started, and a job whose mapper exited 0 leaving no valid model
\* ends in failure, with no outputs and the 'no valid model' message of its
\* mode as the error.
C31_NoModelNoTraining ==
  /\ ~sparse_dir => ~Invoked("opensplat") /\ ~Invoked("4DGaussians train.py")
  /\ NoModelProduced => exc = (IF Static THEN NoModelStatic ELSE NoModelMotion)
  /\ (NoModelProduced /\ Decided) =>
       /\ result.success = FALSE
       /\ result.outputs = None
       /\ result.error = Str(StrOf(IF Static THEN NoModelStatic ELSE NoModelMotion))

\* A static job whose primary engine exited 0 without a model has returned.
C31_Witness ==
  /\ NoModelProduced
  /\ Static
  /\ glomap_success
  /\ all_frames # <<>>
  /\ pc = "returned"

\* The primary engine was started and its exit status, now known, is nonzero.
PrimaryExitedNonzero ==
  /\ Invoked("glomap mapper")
  /\ pc # "glomap_wait"
  /\ ~glomap_success

\* os.chmod or Popen of the primary binary raised.
PrimaryNotLaunched ==
  exc \in {OSError("chmod_fails", "glomap"), OSError("popen_fails", "glomap")}

\* C32: in a static job the secondary engine has been invoked exactly when the
\* primary was launched and exited nonzero (and control is past the fallback
\* test); a primary that exited 0 without a valid model, and a primary that
\* could not be made executable or launched, fail the job with no secondary
\* attempt.
C32_SecondaryIffPrimaryExitedNonzero ==
  Static =>
    /\ Invoked("colmap mapper") <=> (PrimaryExitedNonzero /\ pc # "fallback")
    /\ (glomap_success /\ ~sparse_dir) =>
         /\ ~Invoked("colmap mapper")
         /\ Decided => ~result.success /\ result.error = Str(StrOf(NoModelStatic))
    /\ PrimaryNotLaunched =>
         /\ ~Invoked("glomap mapper")
         /\ ~Invoked("colmap mapper")
         /\ Decided => ~result.success /\ result.error = Str(StrOf(exc))

\* The primary binary could not be started and the job has returned its
\* failure with neither mapper run.
C32_Witness ==
  /\ Static
  /\ PrimaryNotLaunched
  /\ pc = "returned"
  /\ ~result.success
  /\ \A i \in 1..Len(invocations) : ~IsMapper(invocations[i])

\* ------------------------------------------------------------- motion upload
\* The reports of the uploading stage, and those that followed an upload: the
\* first one opens the stage, before any artifact is sent.
UploadReports == SelectSeq(progress, LAMBDA e : e.stage = "uploading")
UploadCheckpoints == IF UploadReports = <<>> THEN <<>> ELSE Tail(UploadReports)
Uploaded == IF outputs = None THEN 0 ELSE Len(outputs["frameUrls"])

\* C33: while a motion job uploads its K >= 1 frame files, the reports that
\* follow uploads are exactly those of the files with index 0, 10, 20, ...:
\* after n uploads there are ceil(n/10) of them, ceil(K/10) once all are sent,
\* the j-th with percentage 90 + floor(8 * 10(j-1) / K), which lies in 90..97.
C33_UploadCheckpoints ==
  (Motion /\ exported_frames >= 1) =>
    LET K == exported_frames
        cps == UploadCheckpoints
    IN /\ Uploaded <= K
       /\ Len(cps) = (Uploaded + 9) \div 10
       /\ \A j \in 1..Len(cps) :
            /\ cps[j].progress = 90 + (8 * (10 * (j - 1))) \div K
            /\ cps[j].progress \in 90..97
       /\ Len(UploadReports) <= 1 + (K + 9) \div 10

\* Twenty-one files are all uploaded: three checkpoints, the last one at 97.
C33_Witness ==
  /\ Motion
  /\ exported_frames = 21
  /\ Uploaded = 21
  /\ Len(UploadCheckpoints) = 3
  /\ UploadCheckpoints[2].progress = 93
  /\ UploadCheckpoints[3].progress = 97

\* ---------------------------------------------------------- result envelope
\* C34: once the job is past its try statement, a result with success = True
\* has a map as outputs and no error, a result with success = False has no
\* outputs and a string as error, and production_id and experience_id are
\* those of the request.
C34_EnvelopeWellFormed ==
  Decided =>
    /\ result.success \in BOOLEAN
    /\ result.success => result.outputs.kind = "map" /\ result.error = None
    /\ ~result.success => result.outputs = None /\ result.error.kind = "str"
    /\ result.production_id = request.production_id
    /\ result.experience_id = request.experience_id

\* A motion job for the second production and experience has returned its
\* failure.
C34_Witness ==
  /\ pc = "returned"
  /\ Motion
  /\ ~result.success
  /\ result.error # None
  /\ request.production_id = "prod-b"
  /\ request.experience_id = "exp-b"
  /\ result.production_id = "prod-b"
  /\ result.experience_id = "exp-b"

\* ------------------------------------------------------------ frame artifacts
\* The bodies the motion job has stored under frame keys, in upload order.
FrameUploads == SelectSeq(uploads, LAMBDA u : u.key \notin {"metadata.json", "scene.ply"})
MetadataUploads == SelectSeq(uploads, LAMBDA u : u.key = "metadata.json")

\* C35 (as claimed): a motion job that succeeded with K >= 1 exported files
\* has uploaded exactly K frame artifacts, the i-th exported file under the
\* key frames/frame_<i, five digits>.ply for i = 0 .. K-1, frameUrls holds
\* the K URLs in that order, and frameCount is K in metadata.json and in the
\* outputs of the result; the copy of exported file n stands at index n of
\* the list the upload loop walks through.
C35_FramesPublishedInOrder ==
  /\ (Motion /\ result # None /\ result.success) =>
       LET K == exported_frames
           out == result.outputs.map
       IN /\ K >= 1
          /\ FrameUploads =
               [i \in 1..K |-> [key |-> FrameKey(i - 1), body |-> [frame |-> i - 1]]]
          /\ out["frameUrls"] = [i \in 1..K |-> Url(FrameKey(i - 1))]
          /\ out["frameCount"] = K
          /\ Len(MetadataUploads) = 1
          /\ MetadataUploads[1].body.frameCount = K
          /\ MetadataUploads[1].body.frameUrls = out["frameUrls"]
  /\ listing # None => listing.index = listing.frame

====
